---------------------------- MODULE Spec2Model ----------------------------
(***************************************************************************)
(* Model of src/src/auto4_lua_dialog.cpp: the Lua configuration dialog of  *)
(* Automation 4 (LuaDialog and its controls).                              *)
(*                                                                         *)
(* A std::string is a sequence of bytes (0..255); the comments give the    *)
(* text a byte sequence stands for.  A Lua value is a record tagged with   *)
(* its dynamic type.  The layout attributes of a control (hint, x, y,      *)
(* width, height) are read by the constructor and by nothing else in the   *)
(* file, so the control records leave them out.                            *)
(***************************************************************************)
EXTENDS Integers, Sequences, FiniteSets, TLC

VARIABLES
    pc,             \* "new": not constructed; how the constructor ended: "ok", "error", "hang", "crash"
    args,           \* the arguments the constructor was called with
    controls,       \* LuaDialog::controls
    buttons,        \* LuaDialog::buttons, pairs (id, label)
    button_pushed,  \* LuaDialog::button_pushed
    use_buttons,    \* LuaDialog::use_buttons
    ret             \* the last call and what it returned

vars == <<pc, args, controls, buttons, button_pushed, use_buttons, ret>>

----------------------------------------------------------------------------
(* Bytes and strings *)

INT_MAX == 2147483647
INT_MIN == -2147483647 - 1

Pipe  == 124    \* '|'
Colon == 58     \* ':'
Hash  == 35     \* '#'
Comma == 44     \* ','

\* std::find: the first position >= i of byte c in s, Len(s) + 1 when there is none
IndexOf(s, c, i) ==
    IF i > Len(s) THEN Len(s) + 1
    ELSE CHOOSE j \in i..(Len(s) + 1) :
            /\ j = Len(s) + 1 \/ s[j] = c
            /\ \A k \in i..(j - 1) : s[k] # c

\* std::string::c_str() read as a C string: the bytes before the first NUL
CStr(s) == SubSeq(s, 1, IndexOf(s, 0, 1) - 1)

IsSpace(c) == c = 32 \/ (c >= 9 /\ c <= 13)
IsDigit(c) == c >= 48 /\ c <= 57

\* the first position of s that holds no blank
SpaceEnd(s) ==
    CHOOSE j \in 1..(Len(s) + 1) :
        /\ j = Len(s) + 1 \/ ~IsSpace(s[j])
        /\ \A k \in 1..(j - 1) : IsSpace(s[k])

\* s after its leading blanks
SkipSpace(s) == SubSeq(s, SpaceEnd(s), Len(s))

\* boost::to_lower on ASCII
ToLowerByte(c) == IF c >= 65 /\ c <= 90 THEN c + 32 ELSE c
ToLower(s) == [i \in 1..Len(s) |-> ToLowerByte(s[i])]

----------------------------------------------------------------------------
(* Numbers wider than the integers at hand.  A natural number is the       *)
(* sequence of its decimal digits (values 0..9), most significant first,   *)
(* <<>> for zero; long and double values are computed on such sequences.   *)
(* A computation in several steps is written as a chain of operators, each *)
(* handing what it computed to the next.                                   *)

\* the least and the greatest of a set of integers
Min(S) == CHOOSE x \in S : \A y \in S : x <= y
Max(S) == CHOOSE x \in S : \A y \in S : y <= x

\* the positions of the digits of d that are not 0
NonZero(d) == { i \in 1..Len(d) : d[i] # 0 }

FromFirst(d, nz) == IF nz = {} THEN <<>> ELSE SubSeq(d, Min(nz), Len(d))
UpToLast(d, nz) == IF nz = {} THEN <<>> ELSE SubSeq(d, 1, Max(nz))

\* d without its leading zeros, and without its trailing zeros
StripLead(d) == FromFirst(d, NonZero(d))
StripTrail(d) == UpToLast(d, NonZero(d))

Zeros(n) == [i \in 1..n |-> 0]

RECURSIVE NatDigits(_)
NatDigits(n) == IF n = 0 THEN <<>> ELSE NatDigits(n \div 10) \o <<n % 10>>

RECURSIVE NatVal(_)
\* the value of a few digits
NatVal(d) == IF d = <<>> THEN 0 ELSE 10 * NatVal(SubSeq(d, 1, Len(d) - 1)) + d[Len(d)]

RECURSIVE MulCarry(_, _, _)
RECURSIVE MulUpper(_, _, _)
MulJoin(hi, lo) == [r |-> hi.r \o lo.r, c |-> hi.c]

\* the upper half d of a product, given the lower half lo and its carry
MulUpper(d, m, lo) == IF lo.r = <<>> THEN lo ELSE MulJoin(MulCarry(d, m, lo.c), lo)

\* d * m + c as Len(d) digits r and the carry c out of them, the lower half
\* of d first and the upper half with its carry
MulCarry(d, m, c) ==
    IF d = <<>> THEN [r |-> <<>>, c |-> c]
    ELSE IF Len(d) = 1 THEN [r |-> <<(d[1] * m + c) % 10>>, c |-> (d[1] * m + c) \div 10]
    ELSE MulUpper(SubSeq(d, 1, Len(d) \div 2), m,
                  MulCarry(SubSeq(d, Len(d) \div 2 + 1, Len(d)), m, c))

CarryOut(p) == NatDigits(p.c) \o p.r

\* the digits of d * m + c; the result is as long as d, or longer by the carry
MulAdd(d, m, c) == CarryOut(MulCarry(d, m, c))

LexAt(a, b, D) == IF D = {} THEN 0 ELSE IF a[Min(D)] < b[Min(D)] THEN -1 ELSE 1

\* -1, 0, 1 as a is before, equal to, after b in the order of digit strings
\* of one length
LexCmp(a, b) == LexAt(a, b, { i \in 1..Len(a) : a[i] # b[i] })

\* -1, 0, 1 as a < b, a = b, a > b, for naturals without leading zeros
CmpNat(a, b) ==
    IF Len(a) < Len(b) THEN -1 ELSE IF Len(a) > Len(b) THEN 1 ELSE LexCmp(a, b)

IsOdd(d) == d # <<>> /\ d[Len(d)] % 2 = 1

\* round to nearest, ties to even: whether the digits cut off carry into the
\* digits kept
RoundsUp(odd, cut) ==
    /\ cut # <<>>
    /\ \/ cut[1] > 5
       \/ cut[1] = 5 /\ (odd \/ \E i \in 2..Len(cut) : cut[i] # 0)

\* the digits m rounded by the digits cut off after them
RoundedInt(m, cut) == IF RoundsUp(IsOdd(m), cut) THEN MulAdd(m, 1, 1) ELSE m

RECURSIVE DivRem(_, _, _)
RECURSIVE DivLower(_, _, _)
DivJoin(hi, lo) == [q |-> hi.q \o lo.q, r |-> lo.r]

\* the lower half d of a quotient, given the upper half hi and its remainder
DivLower(d, m, hi) == IF hi.q = <<>> THEN hi ELSE DivJoin(hi, DivRem(d, m, hi.r))

\* (r * 10^Len(d) + d) divided by m, for r < m: Len(d) quotient digits q and
\* the remainder r, the upper half of d first and the lower half with its
\* remainder
DivRem(d, m, r) ==
    IF d = <<>> THEN [q |-> <<>>, r |-> r]
    ELSE IF Len(d) = 1 THEN [q |-> <<(r * 10 + d[1]) \div m>>, r |-> (r * 10 + d[1]) % m]
    ELSE DivLower(SubSeq(d, Len(d) \div 2 + 1, Len(d)), m,
                  DivRem(SubSeq(d, 1, Len(d) \div 2), m, r))

\* two 16-bit halves read as 32 bits in two's complement
Int32Val(hi, lo) == IF hi >= 32768 THEN (hi - 65536) * 65536 + lo ELSE hi * 65536 + lo
Int32Neg(v, neg) == IF neg /\ v # INT_MIN THEN 0 - v ELSE v
Int32Low(lo, neg) == Int32Neg(Int32Val(DivRem(StripLead(lo.q), 65536, 0).r, lo.r), neg)

\* conversion of a long to int: the low 32 bits, taken as two 16-bit halves
\* and read in two's complement
ToInt32(d, neg) == Int32Low(DivRem(d, 65536, 0), neg)

\* 2^63
P63 == <<9, 2, 2, 3, 3, 7, 2, 0, 3, 6, 8, 5, 4, 7, 7, 5, 8, 0, 8>>

\* the first position >= i of s that holds no decimal digit
DigitsEnd(s, i) ==
    CHOOSE j \in i..(Len(s) + 1) :
        /\ j = Len(s) + 1 \/ ~IsDigit(s[j])
        /\ \A k \in i..(j - 1) : IsDigit(s[k])

DigitVals(s, i, j) == [k \in 1..(j - i) |-> s[i + k - 1] - 48]

\* the decimal digits s begins with
ParseDigits(s) == DigitVals(s, 1, DigitsEnd(s, 1))

\* strtol stops at LONG_MIN and LONG_MAX; the conversion of that long to int
LongToInt(m, neg) ==
    IF CmpNat(m, P63) >= 0 THEN (IF neg THEN 0 ELSE -1) ELSE ToInt32(m, neg)

\* strtol after the blanks: an optional sign, the decimal digits up to the
\* first other byte
StrtolInt(t) ==
    LongToInt(StripLead(ParseDigits(IF t # <<>> /\ Head(t) \in {43, 45} THEN Tail(t) ELSE t)),
              t # <<>> /\ Head(t) = 45)

\* atoi, which is (int)strtol(s, NULL, 10): blanks, an optional sign, the
\* decimal digits up to the first other byte; strtol stops at LONG_MIN and
\* LONG_MAX, and the conversion to int keeps the low 32 bits.  (A result
\* outside int is undefined for atoi in C; this is what the C library of
\* the build computes.)
Atoi(s) == StrtolInt(SkipSpace(CStr(s)))

LastDigit(n) == (10 - (n % 10)) % 10

\* the digits of |n| for an int n (INT_MIN has no negation in int)
AbsDigits(n) ==
    IF n >= 0 THEN NatDigits(n)
    ELSE StripLead(NatDigits((0 - (n + LastDigit(n))) \div 10) \o <<LastDigit(n)>>)

Ascii(d) == [i \in 1..Len(d) |-> 48 + d[i]]

\* std::to_string(int)
to_string(n) ==
    IF n = 0 THEN <<48>> ELSE (IF n < 0 THEN <<45>> ELSE <<>>) \o Ascii(AbsDigits(n))

----------------------------------------------------------------------------
(* double.  A finite double is written by its exact decimal expansion:     *)
(* the digits ip of its integer part (none leading zero) and the digits fp *)
(* of its fraction (none trailing zero); every double has one.  k tells    *)
(* finite values, infinities and NaNs apart, neg is the sign bit.          *)

Dbl(k, neg, ip, fp) == [k |-> k, neg |-> neg, ip |-> ip, fp |-> fp]
DblZero(neg) == Dbl("fin", neg, <<>>, <<>>)
DblInf(neg)  == Dbl("inf", neg, <<>>, <<>>)
DblNaN(neg)  == Dbl("nan", neg, <<>>, <<>>)

\* conversion of an int to double, which is exact
DblOfInt(n) == Dbl("fin", n < 0, AbsDigits(n), <<>>)

DecDrop(d, sc, cut) == [d |-> SubSeq(d, 1, Len(d) - cut), sc |-> sc - cut]
DecCut(d, sc, z) ==
    IF z = Len(d) THEN [d |-> <<>>, sc |-> 0] ELSE DecDrop(d, sc, IF z < sc THEN z ELSE sc)

\* A decimal is digits d and a scale sc: the number d / 10^sc
\* trailing zeros after the point are dropped; d has a digit that is not 0
\* or is empty
DecTrim(d, sc) == DecCut(d, sc, Len(d) - Len(StripTrail(d)))

DecInt(x)    == IF Len(x.d) > x.sc THEN SubSeq(x.d, 1, Len(x.d) - x.sc) ELSE <<>>
DecFrac(x)   == IF Len(x.d) >= x.sc THEN SubSeq(x.d, Len(x.d) - x.sc + 1, Len(x.d))
                ELSE Zeros(x.sc - Len(x.d)) \o x.d

DblOfDec(neg, x) == Dbl("fin", neg, DecInt(x), DecFrac(x))

\* 2^0 .. 2^27; a digit times 2^27 and a carry stay within the integers
TwoPow == <<1, 2, 4, 8, 16, 32, 64, 128, 256, 512, 1024, 2048, 4096, 8192,
            16384, 32768, 65536, 131072, 262144, 524288, 1048576, 2097152,
            4194304, 8388608, 16777216, 33554432, 67108864, 134217728>>

\* x * 2^k for -27 <= k <= 27, which is exact: x / 2^k is x * 10^k / 2^k
\* at k more decimal places
DecShift(x, k) ==
    DecTrim(IF k >= 0 THEN MulAdd(x.d, TwoPow[k + 1], 0)
            ELSE StripLead(DivRem(x.d \o Zeros(0 - k), TwoPow[1 - k], 0).q),
            IF k >= 0 THEN x.sc ELSE x.sc - k)

\* a step of at most 27 binary places towards e
Step27(e) == IF e > 27 THEN 27 ELSE IF e < -27 THEN -27 ELSE e

RECURSIVE Pow2(_, _)
\* x * 2^e, by steps of 27 binary places
Pow2(x, e) ==
    IF e = 0 \/ x.d = <<>> THEN x ELSE Pow2(DecShift(x, Step27(e)), e - Step27(e))

\* 2^53 .. 2^59 as naturals
PowTab == << <<9, 0, 0, 7, 1, 9, 9, 2, 5, 4, 7, 4, 0, 9, 9, 2>>,
            <<1, 8, 0, 1, 4, 3, 9, 8, 5, 0, 9, 4, 8, 1, 9, 8, 4>>,
            <<3, 6, 0, 2, 8, 7, 9, 7, 0, 1, 8, 9, 6, 3, 9, 6, 8>>,
            <<7, 2, 0, 5, 7, 5, 9, 4, 0, 3, 7, 9, 2, 7, 9, 3, 6>>,
            <<1, 4, 4, 1, 1, 5, 1, 8, 8, 0, 7, 5, 8, 5, 5, 8, 7, 2>>,
            <<2, 8, 8, 2, 3, 0, 3, 7, 6, 1, 5, 1, 7, 1, 1, 7, 4, 4>>,
            <<5, 7, 6, 4, 6, 0, 7, 5, 2, 3, 0, 3, 4, 2, 3, 4, 8, 8>> >>

\* by how many binary digits the natural n < 2^60 is longer than 53
Over53(n) == Cardinality({ k \in 1..Len(PowTab) : CmpNat(PowTab[k], n) <= 0 })

\* The double nearest to the decimal x > 0, ties to even.  x lies in
\* [10^t, 10^(t+1)) for t taken from its digits, and a decimal place is a
\* little over 3.3219 binary places: e0 makes y0 = x / 2^e0 a number of 56
\* to 60 binary digits, or is the exponent -1074 of the subnormals.  The
\* exponent e of the double leaves y = x / 2^e an integer part of 53 binary
\* digits (fewer for a subnormal), which is rounded to M by the fraction.
\* An integer up to 2^53 is a double itself.
BinExp(el) == IF el - 55 < -1074 THEN -1074 ELSE el - 55
BinExp0(t) == BinExp(IF t >= 0 THEN (t * 3321) \div 1000 ELSE (t * 3322) \div 1000)

NearestOf(neg, x, e, y, M) ==
    IF e > 971 \/ (e = 971 /\ M = PowTab[1]) THEN DblInf(neg)
    ELSE IF y.sc = 0 THEN DblOfDec(neg, x)
    ELSE DblOfDec(neg, Pow2(DecTrim(M, 0), e))

NearestRound(neg, x, e, y) == NearestOf(neg, x, e, y, RoundedInt(DecInt(y), DecFrac(y)))

NearestOver(neg, x, e0, y0, over) == NearestRound(neg, x, e0 + over, DecShift(y0, 0 - over))

NearestFrom(neg, x, e0, y0) == NearestOver(neg, x, e0, y0, Over53(DecInt(y0)))

NearestAt(neg, x, e0) == NearestFrom(neg, x, e0, Pow2(x, 0 - e0))

NearestDbl(neg, x) ==
    IF x.sc = 0 /\ CmpNat(x.d, PowTab[1]) <= 0 THEN DblOfDec(neg, x)
    ELSE NearestAt(neg, x, BinExp0(Len(x.d) - x.sc - 1))

\* The double of a decimal x >= 0 whose scale may be negative (d * 10^-sc);
\* 10^310 and more is beyond the doubles, less than 10^-330 rounds to 0
DblOfNumber(neg, x) ==
    IF x.d = <<>> THEN DblZero(neg)
    ELSE IF Len(x.d) - x.sc > 310 THEN DblInf(neg)
    ELSE IF Len(x.d) - x.sc < -330 THEN DblZero(neg)
    ELSE NearestDbl(neg, DecTrim(IF x.sc < 0 THEN x.d \o Zeros(0 - x.sc) ELSE x.d,
                                 IF x.sc < 0 THEN 0 ELSE x.sc))

RECURSIVE HexNat(_)
\* the natural of the hexadecimal digits h (values 0..15)
HexNat(h) ==
    IF h = <<>> THEN <<>>
    ELSE MulAdd(HexNat(SubSeq(h, 1, Len(h) - 1)), 16, h[Len(h)])

\* the decimal of n * 2^e2 for a natural n of len hexadecimal digits; 2^1025
\* and more is written 10^400, less than 2^-1080 is written 0
HexOf(n, len, e2) ==
    IF n = <<>> \/ 4 * len + e2 < -1080 THEN [d |-> <<>>, sc |-> 0]
    ELSE IF e2 > 1024 THEN [d |-> <<1>>, sc |-> -400]
    ELSE Pow2(DecTrim(n, 0), e2)

----------------------------------------------------------------------------
(* strtod, atof and the printf conversions of the C library                *)

IsXDigit(c) == IsDigit(c) \/ (c >= 65 /\ c <= 70) \/ (c >= 97 /\ c <= 102)
XDigitVal(c) == IF IsDigit(c) THEN c - 48 ELSE ToLowerByte(c) - 87

\* a digit of a decimal or of a hexadecimal numeral
IsNumDigit(c, hex) == IF hex THEN IsXDigit(c) ELSE IsDigit(c)

\* the first position >= i of s that holds no digit of the numeral
NumDigitsEnd(s, i, hex) ==
    CHOOSE j \in i..(Len(s) + 1) :
        /\ j = Len(s) + 1 \/ ~IsNumDigit(s[j], hex)
        /\ \A k \in i..(j - 1) : IsNumDigit(s[k], hex)

IsWordByte(c) == IsDigit(c) \/ (c >= 65 /\ c <= 90) \/ (c >= 97 /\ c <= 122) \/ c = 95

WordEnd(s, i) ==
    CHOOSE j \in i..(Len(s) + 1) :
        /\ j = Len(s) + 1 \/ ~IsWordByte(s[j])
        /\ \A k \in i..(j - 1) : IsWordByte(s[k])

\* s holds the lower-case word p at position i, in either case
HasWord(s, i, p) ==
    /\ Len(s) >= i + Len(p) - 1
    /\ \A j \in 1..Len(p) : ToLowerByte(s[i + j - 1]) = p[j]

XDigitVals(s, i, j) == [k \in 1..(j - i) |-> XDigitVal(s[i + k - 1])]

\* An exponent at position i of s: the byte mark in either case, an optional
\* sign (signed) and at least one decimal digit (at from, up to to).
\* [neg: its sign, m: the digits of its magnitude, of any length, next: the
\* position after it]; without such an exponent m = <<>> and next = i
ExponentOf(s, i, mark, signed, from, to) ==
    IF i <= Len(s) /\ ToLowerByte(s[i]) = mark /\ to > from
    THEN [neg |-> signed /\ s[i + 1] = 45, m |-> StripLead(DigitVals(s, from, to)), next |-> to]
    ELSE [neg |-> FALSE, m |-> <<>>, next |-> i]

ExponentFrom(s, i, mark, signed, from) ==
    ExponentOf(s, i, mark, signed, from, DigitsEnd(s, from))

ExponentSigned(s, i, mark, signed) ==
    ExponentFrom(s, i, mark, signed, IF signed THEN i + 2 ELSE i + 1)

Exponent(s, i, mark) == ExponentSigned(s, i, mark, i + 1 <= Len(s) /\ s[i + 1] \in {43, 45})

\* the decimal of the numeral of digits digs, nfrac of them after the
\* point, and exponent e: digs * 10^(e - nfrac), or for a hexadecimal
\* numeral digs * 2^(e - 4 * nfrac)
NumeralValue(digs, nfrac, e, hex) ==
    IF hex THEN HexOf(StripLead(HexNat(digs)), Len(digs), e - 4 * nfrac)
    ELSE [d |-> StripLead(digs), sc |-> nfrac - e]

\* The magnitude m of an exponent as an integer.  A numeral of n digits is
\* less than 16^n and, if not 0, at least 16^-n, so that with an exponent
\* of magnitude lim = 4 * n + 1100 or more it is beyond the doubles, or
\* rounds to 0, whatever the exponent is: such an exponent counts as lim
ExpOf(m, lim) == IF CmpNat(m, NatDigits(lim)) >= 0 THEN lim ELSE NatVal(m)
ExpVal(ex, lim) == IF ex.neg THEN 0 - ExpOf(ex.m, lim) ELSE ExpOf(ex.m, lim)

NumeralExp(neg, digs, nfrac, ex, hex) ==
    [val |-> DblOfNumber(neg, NumeralValue(digs, nfrac, ExpVal(ex, 4 * Len(digs) + 1100), hex)),
     next |-> ex.next]

\* A numeral at position i (after the "0x" of a hexadecimal one): digits up
\* to i1, '.', digits from f0 up to f1, exponent ('e', or 'p' for a binary
\* one), with a digit before or after the point.  next = i when there is
\* none
NumeralEnd(neg, s, i, i1, f0, f1, hex) ==
    IF i1 = i /\ f1 = f0 THEN [val |-> DblZero(FALSE), next |-> i]
    ELSE NumeralExp(neg, XDigitVals(s, i, i1) \o XDigitVals(s, f0, f1), f1 - f0,
                    Exponent(s, f1, IF hex THEN 112 ELSE 101), hex)

NumeralFrac(neg, s, i, i1, f0, hex) ==
    NumeralEnd(neg, s, i, i1, f0, NumDigitsEnd(s, f0, hex), hex)

NumeralDot(neg, s, i, i1, hex) ==
    NumeralFrac(neg, s, i, i1, IF i1 <= Len(s) /\ s[i1] = 46 THEN i1 + 1 ELSE i1, hex)

NumeralAt(neg, s, i, hex) == NumeralDot(neg, s, i, NumDigitsEnd(s, i, hex), hex)

\* s holds at i a "0x" with a hexadecimal digit after it or after its point
IsHexAt(s, i) ==
    /\ HasWord(s, i, <<48, 120>>)
    /\ \/ i + 2 <= Len(s) /\ IsXDigit(s[i + 2])
       \/ i + 3 <= Len(s) /\ s[i + 2] = 46 /\ IsXDigit(s[i + 3])

str_inf      == <<105, 110, 102>>                          \* "inf"
str_infinity == <<105, 110, 102, 105, 110, 105, 116, 121>> \* "infinity"
str_nan      == <<110, 97, 110>>                           \* "nan"

\* the end of "nan" at i: after a "(word)" that follows it, if one does
NanEnd(s, i, w) ==
    IF i + 3 <= Len(s) /\ s[i + 3] = 40 /\ w <= Len(s) /\ s[w] = 41 THEN w + 1 ELSE i + 3

StrtodNumeral(r, i) == IF r.next > i THEN r ELSE [val |-> DblZero(FALSE), next |-> 1]

StrtodAt(s, neg, i) ==
    IF HasWord(s, i, str_infinity) THEN [val |-> DblInf(neg), next |-> i + 8]
    ELSE IF HasWord(s, i, str_inf) THEN [val |-> DblInf(neg), next |-> i + 3]
    ELSE IF HasWord(s, i, str_nan)
         THEN [val |-> DblNaN(neg), next |-> NanEnd(s, i, WordEnd(s, i + 4))]
    ELSE StrtodNumeral(NumeralAt(neg, s, IF IsHexAt(s, i) THEN i + 2 ELSE i, IsHexAt(s, i)), i)

StrtodSigned(s, i0) ==
    StrtodAt(s, i0 <= Len(s) /\ s[i0] = 45,
             IF i0 <= Len(s) /\ s[i0] \in {43, 45} THEN i0 + 1 ELSE i0)

\* strtod on the C string s: blanks, an optional sign, then "infinity",
\* "inf", "nan", a hexadecimal numeral after "0x" or a decimal numeral.
\* [val: the double, next: the position after the numeral], next = 1 and
\* val = 0 when s begins with no numeral
Strtod(s) == StrtodSigned(s, Len(s) - Len(SkipSpace(s)) + 1)

\* atof(s) is strtod(s, NULL)
Atof(s) == Strtod(CStr(s)).val

DblSign(v) == IF v.neg THEN <<45>> ELSE <<>>

\* the digits r, the last six of them after the point
FixedSix(r) ==
    (IF Len(r) = 6 THEN <<48>> ELSE Ascii(SubSeq(r, 1, Len(r) - 6))) \o <<46>>
    \o Ascii(SubSeq(r, Len(r) - 5, Len(r)))

\* printf("%f"): six digits after the point, the exact value rounded to
\* nearest, ties to even
FormatF(v) ==
    IF v.k = "inf" THEN DblSign(v) \o str_inf
    ELSE IF v.k = "nan" THEN DblSign(v) \o str_nan
    ELSE DblSign(v) \o FixedSix(RoundedInt(v.ip \o SubSeq(v.fp \o Zeros(6), 1, 6),
                                           SubSeq(v.fp, 7, Len(v.fp))))

\* std::to_string(double) is printf("%f")
to_string_double(v) == FormatF(v)

Abs(x) == IF x < 0 THEN 0 - x ELSE x

\* the significant digits d with the decimal exponent x: exponent notation
\* for an exponent below -4 or from 14 on
GText(x, d) ==
    IF x < -4 \/ x >= 14
    THEN <<48 + d[1]>>
         \o (IF Len(d) > 1 THEN <<46>> \o Ascii(Tail(d)) ELSE <<>>)
         \o <<101, IF x < 0 THEN 45 ELSE 43>>
         \o (IF Abs(x) < 10 THEN <<48>> ELSE <<>>) \o Ascii(NatDigits(Abs(x)))
    ELSE IF x < 0
    THEN <<48, 46>> \o Ascii(Zeros(0 - x - 1) \o d)
    ELSE IF Len(d) <= x + 1
    THEN Ascii(d \o Zeros(x + 1 - Len(d)))
    ELSE Ascii(SubSeq(d, 1, x + 1)) \o <<46>> \o Ascii(SubSeq(d, x + 2, Len(d)))

\* the digits kept, rounded to r: a carry out of them raises the exponent,
\* trailing zeros are dropped
GRounded(x0, kept, r) == GText(IF Len(r) > Len(kept) THEN x0 + 1 ELSE x0, StripTrail(r))

GKept(x0, kept, cut) == GRounded(x0, kept, RoundedInt(kept, cut))

\* the significant digits sig of v: fourteen are kept
GDigits(v, sig) ==
    GKept(IF v.ip # <<>> THEN Len(v.ip) - 1 ELSE 0 - (Len(v.fp) - Len(sig)) - 1,
          SubSeq(sig, 1, IF Len(sig) < 14 THEN Len(sig) ELSE 14),
          SubSeq(sig, 15, Len(sig)))

\* printf("%.14g"): fourteen significant digits, trailing zeros dropped,
\* exponent notation for a decimal exponent below -4 or from 14 on
FormatG(v) ==
    IF v.k = "inf" THEN DblSign(v) \o str_inf
    ELSE IF v.k = "nan" THEN DblSign(v) \o str_nan
    ELSE IF v.ip = <<>> /\ v.fp = <<>> THEN DblSign(v) \o <<48>>
    ELSE DblSign(v) \o GDigits(v, StripLead(v.ip \o v.fp))

\* conversion of a double to ptrdiff_t and on to int: the integer part,
\* its low 32 bits kept.  (For a NaN, an infinity and a value of 2^63 and
\* more the conversion is undefined in C; the cvttsd2si of the build gives
\* LONG_MIN, whose low 32 bits are 0.)
DblToInt(v) ==
    IF v.k # "fin" \/ CmpNat(v.ip, P63) >= 0 THEN 0 ELSE ToInt32(v.ip, v.neg)

\* the fraction digits fp made at least n digits long
FracPad(fp, n) == IF Len(fp) < n THEN fp \o Zeros(n - Len(fp)) ELSE fp

\* |u| < |w| for doubles that are no NaNs
DblMagLess(u, w) ==
    \/ u.k = "fin" /\ w.k = "inf"
    \/ /\ u.k = "fin" /\ w.k = "fin"
       /\ \/ CmpNat(u.ip, w.ip) < 0
          \/ /\ u.ip = w.ip
             /\ LexCmp(FracPad(u.fp, Len(w.fp)), FracPad(w.fp, Len(u.fp))) < 0

DblIsZero(u) == u.k = "fin" /\ u.ip = <<>> /\ u.fp = <<>>

\* a < b on doubles (false when either is a NaN)
DblLess(a, b) ==
    /\ a.k # "nan" /\ b.k # "nan"
    /\ IF DblIsZero(a) /\ DblIsZero(b) THEN FALSE
       ELSE IF a.neg # b.neg THEN a.neg
       ELSE IF a.neg THEN DblMagLess(b, a) ELSE DblMagLess(a, b)

\* a >= b on doubles (false when either is a NaN)
DblGeq(a, b) == a.k # "nan" /\ b.k # "nan" /\ ~DblLess(a, b)

----------------------------------------------------------------------------
(* string_codec.h: inline_string_encode / inline_string_decode.  The file  *)
(* lies outside src/, so the codec follows the written specification       *)
(* (section 4.1): '|', ':' and the escape character '#' never appear       *)
(* unescaped, an escape is '#' and two hexadecimal digits, and decoding    *)
(* never fails.                                                            *)

HexDigit(v) == IF v < 10 THEN 48 + v ELSE 55 + v

HexVal(c) ==
    IF IsDigit(c) THEN c - 48
    ELSE IF c >= 65 /\ c <= 70 THEN c - 55
    ELSE IF c >= 97 /\ c <= 102 THEN c - 87
    ELSE -1

NeedsEscape(c) == c <= 31 \/ c >= 128 \/ c \in {Hash, Comma, Colon, Pipe}

EncodeByte(c) == IF NeedsEscape(c) THEN <<Hash, HexDigit(c \div 16), HexDigit(c % 16)>> ELSE <<c>>

RECURSIVE inline_string_encode(_)
inline_string_encode(s) ==
    IF s = <<>> THEN <<>> ELSE EncodeByte(Head(s)) \o inline_string_encode(Tail(s))

RECURSIVE ParseHex(_, _)
ParseHex(s, acc) ==
    IF s = <<>> \/ HexVal(Head(s)) < 0 THEN acc
    ELSE ParseHex(Tail(s), acc * 16 + HexVal(Head(s)))

\* (char)strtol(s, nullptr, 16) of the one or two bytes after a '#'
EscapeByte(s) ==
    LET t == SkipSpace(s)
        v == IF t = <<>> THEN 0
             ELSE IF Head(t) = 45 THEN 0 - ParseHex(Tail(t), 0)
             ELSE IF Head(t) = 43 THEN ParseHex(Tail(t), 0)
             ELSE ParseHex(t, 0)
    IN v % 256

RECURSIVE DecodeFrom(_, _)
DecodeFrom(s, i) ==
    IF i > Len(s) THEN <<>>
    ELSE IF s[i] # Hash \/ i = Len(s) THEN <<s[i]>> \o DecodeFrom(s, i + 1)
    ELSE <<EscapeByte(SubSeq(s, i + 1, IF i + 2 <= Len(s) THEN i + 2 ELSE Len(s)))>>
         \o DecodeFrom(s, i + 3)

inline_string_decode(s) == DecodeFrom(s, 1)

RECURSIVE SplitFrom(_, _, _)
\* agi::Split(s, c): the pieces of s between the bytes c (libaegisub/split.h)
SplitFrom(s, c, i) ==
    IF i > Len(s) THEN <<>>
    ELSE LET j == IndexOf(s, c, i)
         IN <<SubSeq(s, i, j - 1)>> \o SplitFrom(s, c, j + 1)

Split(s, c) == SplitFrom(s, c, 1)

----------------------------------------------------------------------------
(* Lua values.  A value is tagged with its dynamic type; a number is a      *)
(* lua_Number, which is a double.                                          *)

LNil       == [t |-> "nil",     b |-> FALSE, n |-> DblZero(FALSE), s |-> <<>>]
LBool(b)   == [t |-> "boolean", b |-> b,     n |-> DblZero(FALSE), s |-> <<>>]
LNumber(d) == [t |-> "number",  b |-> FALSE, n |-> d,              s |-> <<>>]
LStr(s)    == [t |-> "string",  b |-> FALSE, n |-> DblZero(FALSE), s |-> s]
\* a table met where a scalar is read
LTable     == [t |-> "table",   b |-> FALSE, n |-> DblZero(FALSE), s |-> <<>>]

\* lua_pushinteger: the number of an int
LNum(n) == LNumber(DblOfInt(n))

\* a conversion to a number that failed
NotANumber == [ok |-> FALSE, n |-> DblZero(FALSE)]

\* the C string c is a number when strtod, whose result is r, converted a
\* numeral at its start and only blanks follow
Str2dEnd(c, r) ==
    IF r.next > 1 /\ SkipSpace(SubSeq(c, r.next, Len(c))) = <<>>
    THEN [ok |-> TRUE, n |-> r.val]
    ELSE NotANumber

\* luaO_str2d of Lua 5.1 on the C string c
luaO_str2d(c) == Str2dEnd(c, Strtod(c))

\* luaV_tonumber, the conversion under lua_isnumber, lua_tonumber and
\* lua_tointeger: a number is itself, a string is converted on its C string
luaV_tonumber(v) ==
    IF v.t = "number" THEN [ok |-> TRUE, n |-> v.n]
    ELSE IF v.t = "string" THEN luaO_str2d(CStr(v.s))
    ELSE NotANumber

\* a string Lua converts to a number
StrIsNumber(s) == luaO_str2d(CStr(s)).ok

lua_isstring(v)  == v.t \in {"string", "number"}
lua_isnumber(v)  == luaV_tonumber(v).ok
lua_isboolean(v) == v.t = "boolean"
\* a number is converted by sprintf("%.14g")
lua_tostring(v)  == IF v.t = "number" THEN FormatG(v.n) ELSE v.s
\* 0 for a value that is no number
lua_tonumber(v)  == luaV_tonumber(v).n
lua_tointeger(v) == DblToInt(lua_tonumber(v))

\* The fields the control constructors read
FieldNames == {"class", "name", "value", "text", "label", "min", "max", "step"}

\* lua_getfield on the control table on top of the stack
lua_getfield(tbl, name) == tbl.fields[name]

\* get_field<std::string>: the std::string is assigned the const char * of
\* lua_tostring, and so ends before the first NUL
get_field_string(tbl, name, def) ==
    LET v == lua_getfield(tbl, name) IN IF lua_isstring(v) THEN CStr(lua_tostring(v)) ELSE def

\* get_if_right_type on a double and on an int: lua_isnumber, then
\* lua_tonumber or lua_tointeger, all three on the one conversion r of the
\* value
NumberOr(r, def)  == IF r.ok THEN r.n ELSE def
IntegerOr(r, def) == IF r.ok THEN DblToInt(r.n) ELSE def

\* get_field<double>
get_field_double(tbl, name, def) == NumberOr(luaV_tonumber(lua_getfield(tbl, name)), def)

\* get_field<int>
get_field_int(tbl, name, def) == IntegerOr(luaV_tonumber(lua_getfield(tbl, name)), def)

\* get_field<bool>
get_field_bool(tbl, name, def) ==
    LET v == lua_getfield(tbl, name) IN IF lua_isboolean(v) THEN v.b ELSE def

\* read_string_array: the entries of the table that are strings, in order,
\* each pushed back as the const char * of lua_tostring
read_string_array(tbl) ==
    LET str == SelectSeq(tbl, lua_isstring)
    IN [i \in 1..Len(str) |-> CStr(lua_tostring(str[i]))]

----------------------------------------------------------------------------
(* agi::Color (libaegisub/color.h), which lies outside src/: the four      *)
(* channels of a colour.  Following the specification, a colour is parsed  *)
(* from its hexadecimal form "#RRGGBB" or "#RRGGBBAA", any other string    *)
(* leaving the default colour, and GetHexFormatted writes that form, with  *)
(* the alpha channel on request.                                           *)

AgiColor(r, g, b, a) == [r |-> r, g |-> g, b |-> b, a |-> a]
DefaultColor == AgiColor(0, 0, 0, 0)

HexByte(s, i) == 16 * XDigitVal(s[i]) + XDigitVal(s[i + 1])

ParseColor(s) ==
    IF /\ Len(s) \in {7, 9}
       /\ s[1] = Hash
       /\ \A i \in 2..Len(s) : IsXDigit(s[i])
    THEN AgiColor(HexByte(s, 2), HexByte(s, 4), HexByte(s, 6),
                  IF Len(s) = 9 THEN HexByte(s, 8) ELSE 0)
    ELSE DefaultColor

GetHexFormatted(c, rgba) ==
    LET hex(v) == <<HexDigit(v \div 16), HexDigit(v % 16)>>
    IN <<Hash>> \o hex(c.r) \o hex(c.g) \o hex(c.b) \o (IF rgba THEN hex(c.a) ELSE <<>>)

----------------------------------------------------------------------------
(* Controls.  One record shape for every class; a class uses the fields    *)
(* its C++ class declares and leaves the others at their blank values.     *)
(* value, min and max are those of IntEdit; fvalue, fmin, fmax and step    *)
(* are the value, min, max and step of FloatEdit; selected is the value of *)
(* Dropdown and checked the value of Checkbox.                             *)

DBL_MAX_digits ==
    <<1, 7, 9, 7, 6, 9, 3, 1, 3, 4, 8, 6, 2, 3, 1, 5, 7, 0, 8, 1, 4, 5, 2, 7,
      4, 2, 3, 7, 3, 1, 7, 0, 4, 3, 5, 6, 7, 9, 8, 0, 7, 0, 5, 6, 7, 5, 2, 5,
      8, 4, 4, 9, 9, 6, 5, 9, 8, 9, 1, 7, 4, 7, 6, 8, 0, 3, 1, 5, 7, 2, 6, 0,
      7, 8, 0, 0, 2, 8, 5, 3, 8, 7, 6, 0, 5, 8, 9, 5, 5, 8, 6, 3, 2, 7, 6, 6,
      8, 7, 8, 1, 7, 1, 5, 4, 0, 4, 5, 8, 9, 5, 3, 5, 1, 4, 3, 8, 2, 4, 6, 4,
      2, 3, 4, 3, 2, 1, 3, 2, 6, 8, 8, 9, 4, 6, 4, 1, 8, 2, 7, 6, 8, 4, 6, 7,
      5, 4, 6, 7, 0, 3, 5, 3, 7, 5, 1, 6, 9, 8, 6, 0, 4, 9, 9, 1, 0, 5, 7, 6,
      5, 5, 1, 2, 8, 2, 0, 7, 6, 2, 4, 5, 4, 9, 0, 0, 9, 0, 3, 8, 9, 3, 2, 8,
      9, 4, 4, 0, 7, 5, 8, 6, 8, 5, 0, 8, 4, 5, 5, 1, 3, 3, 9, 4, 2, 3, 0, 4,
      5, 8, 3, 2, 3, 6, 9, 0, 3, 2, 2, 2, 9, 4, 8, 1, 6, 5, 8, 0, 8, 5, 5, 9,
      3, 3, 2, 1, 2, 3, 3, 4, 8, 2, 7, 4, 7, 9, 7, 8, 2, 6, 2, 0, 4, 1, 4, 4,
      7, 2, 3, 1, 6, 8, 7, 3, 8, 1, 7, 7, 1, 8, 0, 9, 1, 9, 2, 9, 9, 8, 8, 1,
      2, 5, 0, 4, 0, 4, 0, 2, 6, 1, 8, 4, 1, 2, 4, 8, 5, 8, 3, 6, 8>>

\* DBL_MAX = (2^53 - 1) * 2^971 and -DBL_MAX
DBL_MAX     == Dbl("fin", FALSE, DBL_MAX_digits, <<>>)
DBL_MAX_neg == Dbl("fin", TRUE, DBL_MAX_digits, <<>>)

BlankControl ==
    [class |-> "Label", name |-> <<>>, label |-> <<>>, text |-> <<>>,
     value |-> 0, min |-> 0, max |-> 0,
     fvalue |-> DblZero(FALSE), fmin |-> DblZero(FALSE), fmax |-> DblZero(FALSE),
     step |-> DblZero(FALSE),
     items |-> <<>>, selected |-> <<>>, checked |-> FALSE,
     color |-> DefaultColor, alpha |-> FALSE]

\* LuaDialogControl::LuaDialogControl
LuaDialogControl(tbl) == [BlankControl EXCEPT !.name = get_field_string(tbl, "name", <<>>)]

\* Label::Label
Label(tbl) ==
    [LuaDialogControl(tbl) EXCEPT !.class = "Label",
                                  !.label = get_field_string(tbl, "label", <<>>)]

\* Edit::Edit: 'value' is read first, 'text' overrides it
Edit(tbl) ==
    [LuaDialogControl(tbl) EXCEPT
        !.class = "Edit",
        !.text = get_field_string(tbl, "text", get_field_string(tbl, "value", <<>>))]

\* the members of an IntEdit on top of its Edit
IntEditOf(edit, value, range) ==
    [edit EXCEPT !.class = "IntEdit", !.value = value, !.min = range.min, !.max = range.max]

\* if (min > max): only a strictly inverted range snaps
IntRange_Strict(min, max) ==
    IF min > max THEN [min |-> INT_MIN, max |-> INT_MAX] ELSE [min |-> min, max |-> max]

\* IntEdit::IntEdit snapping only a strictly inverted range
IntEdit_Strict(tbl) ==
    IntEditOf(Edit(tbl), get_field_int(tbl, "value", 0),
              IntRange_Strict(get_field_int(tbl, "min", INT_MIN),
                              get_field_int(tbl, "max", INT_MAX)))

\* if (min >= max): an inverted or empty range snaps to the whole of int
IntRange(min, max) ==
    IF min >= max THEN [min |-> INT_MIN, max |-> INT_MAX] ELSE [min |-> min, max |-> max]

\* IntEdit::IntEdit
IntEdit(tbl) ==
    IntEditOf(Edit(tbl), get_field_int(tbl, "value", 0),
              IntRange(get_field_int(tbl, "min", INT_MIN), get_field_int(tbl, "max", INT_MAX)))

\* the members of a FloatEdit on top of its Edit
FloatEditOf(edit, value, range, step) ==
    [edit EXCEPT !.class = "FloatEdit", !.fvalue = value, !.fmin = range.min,
                 !.fmax = range.max, !.step = step]

\* if (min >= max): an inverted or empty range snaps to the whole of double
FloatRange(min, max) ==
    IF DblGeq(min, max) THEN [min |-> DBL_MAX_neg, max |-> DBL_MAX]
    ELSE [min |-> min, max |-> max]

\* FloatEdit::FloatEdit
FloatEdit(tbl) ==
    FloatEditOf(Edit(tbl), get_field_double(tbl, "value", DblZero(FALSE)),
                FloatRange(get_field_double(tbl, "min", DBL_MAX_neg),
                           get_field_double(tbl, "max", DBL_MAX)),
                get_field_double(tbl, "step", DblZero(FALSE)))

\* the members of a Dropdown: a value that is no item is replaced by the
\* first item
DropdownOf(control, value, items) ==
    [control EXCEPT
        !.class = "Dropdown",
        !.items = items,
        !.selected = IF Len(items) > 0 /\ ~(\E i \in 1..Len(items) : items[i] = value)
                     THEN items[1] ELSE value]

\* lua_getfield(L, -1, "items") and read_string_array on what it pushed.
\* lua_for_each iterates the value as a table without a test: for a value
\* that is no table (an absent 'items' is nil) lua_next reads memory that
\* holds no table, which is undefined.  run is what that makes of this
\* construction: the process ends on a memory fault (run.crash), or the
\* iteration yields the values run.found
ItemsRead(items, run) == read_string_array(IF items.istable THEN items.entries ELSE run.found)

\* Dropdown::Dropdown
Dropdown(tbl, run) ==
    DropdownOf(LuaDialogControl(tbl), get_field_string(tbl, "value", <<>>),
               ItemsRead(tbl.items, run))

\* Checkbox::Checkbox
Checkbox(tbl) ==
    [LuaDialogControl(tbl) EXCEPT
        !.class = "Checkbox",
        !.label = get_field_string(tbl, "label", <<>>),
        !.checked = get_field_bool(tbl, "value", FALSE)]

\* Textbox::Textbox: an Edit
Textbox(tbl) == [Edit(tbl) EXCEPT !.class = "Textbox"]

\* Color::Color
Color(tbl, alpha) ==
    [LuaDialogControl(tbl) EXCEPT
        !.class = "Color",
        !.color = ParseColor(get_field_string(tbl, "value", <<>>)),
        !.alpha = alpha]

\* CanSerialiseValue: every class but Label overrides it to return true
CanSerialiseValue(c) == c.class # "Label"

\* SerialiseValue with the text of an Edit left unencoded
SerialiseValue_Raw(c) ==
    CASE c.class \in {"Edit", "Textbox"} -> c.text
      [] c.class = "IntEdit"   -> to_string(c.value)
      [] c.class = "FloatEdit" -> to_string_double(c.fvalue)
      [] c.class = "Dropdown"  -> inline_string_encode(c.selected)
      [] c.class = "Checkbox"  -> IF c.checked THEN <<49>> ELSE <<48>>
      [] c.class = "Color"     -> inline_string_encode(GetHexFormatted(c.color, c.alpha))

\* SerialiseValue of each class
SerialiseValue(c) ==
    CASE c.class \in {"Edit", "Textbox"} -> inline_string_encode(c.text)
      [] c.class = "IntEdit"   -> to_string(c.value)
      [] c.class = "FloatEdit" -> to_string_double(c.fvalue)
      [] c.class = "Dropdown"  -> inline_string_encode(c.selected)
      [] c.class = "Checkbox"  -> IF c.checked THEN <<49>> ELSE <<48>>
      [] c.class = "Color"     -> inline_string_encode(GetHexFormatted(c.color, c.alpha))

\* UnserialiseValue of each class
UnserialiseValue(c, serialised) ==
    CASE c.class \in {"Edit", "Textbox"} -> [c EXCEPT !.text = inline_string_decode(serialised)]
      [] c.class = "IntEdit"   -> [c EXCEPT !.value = Atoi(serialised)]
      [] c.class = "FloatEdit" -> [c EXCEPT !.fvalue = Atof(serialised)]
      [] c.class = "Dropdown"  -> [c EXCEPT !.selected = inline_string_decode(serialised)]
      [] c.class = "Checkbox"  -> [c EXCEPT !.checked = (serialised # <<48>>)]
      [] c.class = "Color"     -> [c EXCEPT !.color = ParseColor(inline_string_decode(serialised))]

\* LuaReadBack of a control: the Lua value it pushes
ControlReadBack(c) ==
    CASE c.class = "Label"     -> LNil
      [] c.class \in {"Edit", "Textbox"} -> LStr(CStr(c.text))
      [] c.class = "IntEdit"   -> LNum(c.value)
      [] c.class = "FloatEdit" -> LNumber(c.fvalue)
      [] c.class = "Dropdown"  -> LStr(CStr(c.selected))
      [] c.class = "Checkbox"  -> LBool(c.checked)
      [] c.class = "Color"     -> LStr(CStr(GetHexFormatted(c.color, c.alpha)))

----------------------------------------------------------------------------
(* Buttons *)

BTN_OK           == 0
BTN_YES          == 1
BTN_SAVE         == 2
BTN_APPLY        == 3
BTN_CLOSE        == 4
BTN_NO           == 5
BTN_CANCEL       == 6
BTN_HELP         == 7
BTN_CONTEXT_HELP == 8

str_ok == <<111, 107>>    \* "ok"
str_yes == <<121, 101, 115>>    \* "yes"
str_save == <<115, 97, 118, 101>>    \* "save"
str_apply == <<97, 112, 112, 108, 121>>    \* "apply"
str_close == <<99, 108, 111, 115, 101>>    \* "close"
str_no == <<110, 111>>    \* "no"
str_cancel == <<99, 97, 110, 99, 101, 108>>    \* "cancel"
str_help == <<104, 101, 108, 112>>    \* "help"
str_context_help == <<99, 111, 110, 116, 101, 120, 116, 95, 104, 101, 108, 112>>    \* "context_help"

\* string_to_button_id: the id of a semantic name, -1 for any other string
string_to_button_id(str) ==
    CASE str = str_ok           -> BTN_OK
      [] str = str_yes          -> BTN_YES
      [] str = str_save         -> BTN_SAVE
      [] str = str_apply        -> BTN_APPLY
      [] str = str_close        -> BTN_CLOSE
      [] str = str_no           -> BTN_NO
      [] str = str_cancel       -> BTN_CANCEL
      [] str = str_help         -> BTN_HELP
      [] str = str_context_help -> BTN_CONTEXT_HELP
      [] OTHER                  -> -1

\* std::pair<int, std::string>
Button(id, label) == [first |-> id, second |-> label]

str_OK     == <<79, 75>>    \* "OK"
str_Cancel == <<67, 97, 110, 99, 101, 108>>    \* "Cancel"

DefaultButtons == <<Button(BTN_OK, str_OK), Button(BTN_CANCEL, str_Cancel)>>

\* boost::find_if(buttons, label equal): the first position, Len + 1 for end
RECURSIVE FindButton(_, _, _)
FindButton(btns, label, i) ==
    IF i > Len(btns) THEN Len(btns) + 1
    ELSE IF btns[i].second = label THEN i
    ELSE FindButton(btns, label, i + 1)

----------------------------------------------------------------------------
(* LuaDialog::LuaDialog *)

class_label == <<108, 97, 98, 101, 108>>    \* "label"
class_edit == <<101, 100, 105, 116>>    \* "edit"
class_intedit == <<105, 110, 116, 101, 100, 105, 116>>    \* "intedit"
class_floatedit == <<102, 108, 111, 97, 116, 101, 100, 105, 116>>    \* "floatedit"
class_textbox == <<116, 101, 120, 116, 98, 111, 120>>    \* "textbox"
class_dropdown == <<100, 114, 111, 112, 100, 111, 119, 110>>    \* "dropdown"
class_checkbox == <<99, 104, 101, 99, 107, 98, 111, 120>>    \* "checkbox"
class_color == <<99, 111, 108, 111, 114>>    \* "color"
class_coloralpha == <<99, 111, 108, 111, 114, 97, 108, 112, 104, 97>>    \* "coloralpha"
class_alpha == <<97, 108, 112, 104, 97>>    \* "alpha"

KnownClasses ==
    {class_label, class_edit, class_intedit, class_floatedit, class_textbox,
     class_dropdown, class_checkbox, class_color, class_coloralpha, class_alpha}

\* the chain of comparisons on the lower-cased class name
MakeControl(controlclass, tbl, run) ==
    CASE controlclass = class_label      -> Label(tbl)
      [] controlclass = class_edit       -> Edit(tbl)
      [] controlclass = class_intedit    -> IntEdit(tbl)
      [] controlclass = class_floatedit  -> FloatEdit(tbl)
      [] controlclass = class_textbox    -> Textbox(tbl)
      [] controlclass = class_dropdown   -> Dropdown(tbl, run)
      [] controlclass = class_checkbox   -> Checkbox(tbl)
      [] controlclass = class_color      -> Color(tbl, FALSE)
      [] controlclass = class_coloralpha -> Color(tbl, TRUE)
      [] controlclass = class_alpha      -> Edit(tbl)

\* boost::to_lower(get_field(L, "class"))
ControlClass(tbl) == ToLower(get_field_string(tbl, "class", <<>>))

\* How a call of the constructor ends, st: "ok" with the controls and
\* buttons built, "error" when it raised a Lua error, "hang" when it does
\* not return, "crash" when the process ended on a memory fault
Built(c, b) == [st |-> "ok", controls |-> c, buttons |-> b]
Raised  == [st |-> "error", controls |-> <<>>, buttons |-> <<>>]
Hangs   == [st |-> "hang",  controls |-> <<>>, buttons |-> <<>>]
Crashed == [st |-> "crash", controls |-> <<>>, buttons |-> <<>>]

\* an iteration that is defined
NoRun == [crash |-> FALSE, found |-> <<>>]

\* u gives the undefined iterations of a call by the position of the control
\* entry that makes them
RunOf(u, i) == IF i \in DOMAIN u THEN u[i] ELSE NoRun

\* a control entry whose constructor iterates a value that is no table
IsStray(e) == e.istable /\ ControlClass(e) = class_dropdown /\ ~e.items.istable

\* the loop over the control table: error(L, "bad control table entry") on
\* an entry that is no table or whose class is none of the known ones
RECURSIVE BuildControls(_, _, _)
RECURSIVE BuildControl(_, _, _, _)
\* the first entry, a table of class controlclass, its undefined iteration run
BuildControl(entries, acc, controlclass, u) ==
    IF controlclass \notin KnownClasses THEN Raised
    ELSE IF controlclass = class_dropdown /\ ~Head(entries).items.istable
            /\ RunOf(u, Len(acc) + 1).crash
    THEN Crashed
    ELSE BuildControls(Tail(entries),
                       Append(acc, MakeControl(controlclass, Head(entries),
                                               RunOf(u, Len(acc) + 1))), u)

BuildControls(entries, acc, u) ==
    IF entries = <<>> THEN Built(acc, <<>>)
    ELSE IF ~Head(entries).istable THEN Raised
    ELSE BuildControl(entries, acc, ControlClass(Head(entries)), u)

\* check_string (libaegisub/lua/utils.h): the string, or a Lua type error
\* for a value that is neither a string nor a number.  It reads the value
\* with lua_tolstring, which turns a number on the stack into a string
check_string_raises(v) == ~lua_isstring(v)

\* the loop over the button label table
RECURSIVE ReadButtons(_, _)
ReadButtons(labels, acc) ==
    IF labels = <<>> THEN Built(<<>>, acc)
    ELSE IF check_string_raises(Head(labels)) THEN Raised
    ELSE ReadButtons(Tail(labels), Append(acc, Button(-1, lua_tostring(Head(labels)))))

\* the key on the stack after check_string(L, -2): a string key as it was,
\* a number key turned into the string of the number
StackKey(key) == LStr(lua_tostring(key))

\* the entries of the table that have the key on the stack as their key:
\* the entry itself for a string key
KeyEntries(idmap, key) == { q \in 1..Len(idmap) : idmap[q].key = StackKey(key) }

\* The loop over the button id table, its entries in the order lua_next
\* yields them, from entry p on, seen the entries visited so far.  lua_next
\* goes on from the key on the stack, which check_string(L, -2) has turned
\* into a string if it was a number: lua_next raises "invalid key to 'next'"
\* unless the table holds that string as a key too, and then goes on after
\* that entry, which may lie before or after p.  Where the loop goes on
\* depends on the entry alone, so it never ends once it comes to an entry
\* it has visited
RECURSIVE AssignFrom(_, _, _, _)
\* lua_next after an entry, at the entries of the key on the stack
AssignNext(idmap, btns, seen, at) ==
    IF at = {} THEN Raised
    ELSE AssignFrom(idmap, btns, Min(at) + 1, seen)

\* entry p: the id of its name goes to the button btn of its label
AssignButtonId(idmap, btns, p, id, btn, seen) ==
    IF btn = Len(btns) + 1 THEN Raised
    ELSE AssignNext(idmap, [btns EXCEPT ![btn].first = id], seen \cup {p},
                    KeyEntries(idmap, idmap[p].key))

AssignFrom(idmap, btns, p, seen) ==
    IF p > Len(idmap) THEN Built(<<>>, btns)
    ELSE IF p \in seen THEN Hangs
    ELSE IF check_string_raises(idmap[p].key) \/ check_string_raises(idmap[p].val)
    THEN Raised
    ELSE AssignButtonId(idmap, btns, p, string_to_button_id(lua_tostring(idmap[p].key)),
                        FindButton(btns, lua_tostring(idmap[p].val), 1), seen)

\* the loop over the button id table
AssignButtonIds(idmap, btns) == AssignFrom(idmap, btns, 1, {})

\* if (buttons.empty()): the two default buttons
DefaultIfEmpty_Swapped(btns) ==
    IF btns = <<>> THEN <<Button(BTN_CANCEL, str_Cancel), Button(BTN_OK, str_OK)>> ELSE btns

DefaultIfEmpty(btns) == IF btns = <<>> THEN DefaultButtons ELSE btns

NoButtons == Built(<<>>, <<>>)

\* the constructor after the button id table, its buttons b
DialogIds(c, b) ==
    IF b.st # "ok" THEN b ELSE Built(c.controls, DefaultIfEmpty(b.buttons))

\* the constructor after the button label table, its buttons b
DialogButtons(a, c, b) ==
    IF b.st # "ok" THEN b
    ELSE DialogIds(c, IF a.include_buttons /\ a.idmap.istable
                      THEN AssignButtonIds(a.idmap.entries, b.buttons)
                      ELSE b)

\* the constructor after the control table, its controls c
DialogControls(a, c) ==
    IF c.st # "ok" THEN c
    ELSE DialogButtons(a, c, IF a.include_buttons /\ a.labels.istable
                             THEN ReadButtons(a.labels.entries, <<>>)
                             ELSE NoButtons)

\* The constructor on the arguments a: the control table, the button label
\* table, the button id table (each a Lua value that may be no table) and
\* include_buttons; u is what the undefined iterations of this call do
LuaDialogNew(a, u) ==
    IF ~a.controls.istable THEN Raised
    ELSE DialogControls(a, BuildControls(a.controls.entries, <<>>, u))

\* button_pushed as the class declaration initialises it: no button
NoButton == -1

----------------------------------------------------------------------------
(* LuaDialog's operations *)

\* lua_setfield on the readback table: nil removes the key
lua_setfield(tbl, k, v) ==
    {e \in tbl : e.k # k} \cup (IF v.t = "nil" THEN {} ELSE {[k |-> k, v |-> v]})

RECURSIVE ReadBackControls(_, _)
ReadBackControls(ctrls, tbl) ==
    IF ctrls = <<>> THEN tbl
    ELSE ReadBackControls(Tail(ctrls),
            lua_setfield(tbl, CStr(Head(ctrls).name), ControlReadBack(Head(ctrls))))

\* LuaReadBack testing the pushed button against BTN_CLOSE
LuaReadBack_Close(d) ==
    [nret   |-> IF d.use_buttons THEN 2 ELSE 1,
     act    |-> IF ~d.use_buttons THEN LNil
                ELSE IF d.button_pushed = -1
                        \/ d.buttons[d.button_pushed + 1].first = BTN_CLOSE
                     THEN LBool(FALSE)
                     ELSE LStr(CStr(d.buttons[d.button_pushed + 1].second)),
     values |-> ReadBackControls(d.controls, {})]

\* LuaDialog::LuaReadBack: the values pushed, first to last
LuaReadBack(d) ==
    [nret   |-> IF d.use_buttons THEN 2 ELSE 1,
     act    |-> IF ~d.use_buttons THEN LNil
                ELSE IF d.button_pushed = -1
                        \/ d.buttons[d.button_pushed + 1].first = BTN_CANCEL
                     THEN LBool(FALSE)
                     ELSE LStr(CStr(d.buttons[d.button_pushed + 1].second)),
     values |-> ReadBackControls(d.controls, {})]

\* PushButton with the upper test off by one
PushButtonValue_OffByOne(button, btns) ==
    IF button # -1 /\ (button < 0 \/ button > Len(btns)) THEN -1 ELSE button

\* LuaDialog::PushButton: the value stored in button_pushed
PushButtonValue(button, btns) ==
    IF button # -1 /\ (button < 0 \/ button >= Len(btns)) THEN -1 ELSE button

RECURSIVE SerialiseLoop_AlwaysPipe(_, _)
\* the loop without the test of res.empty()
SerialiseLoop_AlwaysPipe(ctrls, res) ==
    IF ctrls = <<>> THEN res
    ELSE LET c == Head(ctrls) IN
         IF CanSerialiseValue(c)
         THEN SerialiseLoop_AlwaysPipe(Tail(ctrls),
                res \o <<Pipe>> \o inline_string_encode(c.name) \o <<Colon>> \o SerialiseValue(c))
         ELSE SerialiseLoop_AlwaysPipe(Tail(ctrls), res)

RECURSIVE SerialiseLoop(_, _)
SerialiseLoop(ctrls, res) ==
    IF ctrls = <<>> THEN res
    ELSE LET c == Head(ctrls) IN
         IF CanSerialiseValue(c)
         THEN SerialiseLoop(Tail(ctrls),
                (IF res # <<>> THEN res \o <<Pipe>> ELSE res)
                \o inline_string_encode(c.name) \o <<Colon>> \o SerialiseValue(c))
         ELSE SerialiseLoop(Tail(ctrls), res)

\* LuaDialog::Serialise
SerialiseString(ctrls) == SerialiseLoop(ctrls, <<>>)

\* the inner loop stopping at the first control that matches
HandValue_FirstOnly(ctrls, name, value) ==
    LET hit == { i \in 1..Len(ctrls) : ctrls[i].name = name /\ CanSerialiseValue(ctrls[i]) }
    IN [i \in 1..Len(ctrls) |->
            IF i \in hit /\ \A j \in hit : i <= j
            THEN UnserialiseValue(ctrls[i], value) ELSE ctrls[i]]

\* the inner loop of Unserialise: hand value to all controls matching name
HandValue(ctrls, name, value) ==
    [i \in 1..Len(ctrls) |->
        IF ctrls[i].name = name /\ CanSerialiseValue(ctrls[i])
        THEN UnserialiseValue(ctrls[i], value) ELSE ctrls[i]]

RECURSIVE UnserialiseTokens(_, _)
UnserialiseTokens(toks, ctrls) ==
    IF toks = <<>> THEN ctrls
    ELSE LET tok == Head(toks)
             pos == IndexOf(tok, Colon, 1)
         IN IF pos = Len(tok) + 1 THEN UnserialiseTokens(Tail(toks), ctrls)
            ELSE UnserialiseTokens(Tail(toks),
                    HandValue(ctrls, inline_string_decode(SubSeq(tok, 1, pos - 1)),
                              SubSeq(tok, pos + 1, Len(tok))))

\* LuaDialog::Unserialise: the controls afterwards
UnserialiseControls(ctrls, serialised) == UnserialiseTokens(Split(serialised, Pipe), ctrls)

----------------------------------------------------------------------------
(* Inputs.  A table argument is [istable, entries]; a control entry is     *)
(* [istable, fields, items], fields giving the Lua value under each key    *)
(* (nil when absent) and items the value under "items": a table with its   *)
(* entries, or a value that is no table (nil when absent).  The keys of    *)
(* the button id table are strings, numbers or booleans.                   *)

MaxControls     == 2    \* controls of a dialog that is then operated on
MaxCtorControls == 2    \* control entries of a constructor call
MaxButtons      == 2    \* button labels
MaxIdMap        == 2    \* entries of the button id table
MaxTokens       == 2    \* '|'-separated tokens of an Unserialise input
MaxPush         == 3    \* PushButton is called with -MaxPush .. MaxPush

TableArg(entries) == [istable |-> TRUE, entries |-> entries]
NoTableArg == [istable |-> FALSE, entries |-> <<>>]

\* the value under "items": a table, or no table
Items(entries) == TableArg(entries)
NoItems == NoTableArg

NoFields == [f \in FieldNames |-> LNil]
Tbl(fs, items) == [istable |-> TRUE, fields |-> fs @@ NoFields, items |-> items]
NotATable == [istable |-> FALSE, fields |-> NoFields, items |-> NoItems]

RECURSIVE SeqsUpTo(_, _)
\* the sequences of at most n elements of S
SeqsUpTo(S, n) ==
    IF n = 0 THEN {<<>>}
    ELSE LET shorter == SeqsUpTo(S, n - 1)
         IN shorter \cup {Append(q, x) : q \in shorter, x \in S}

Distinct(q, Key(_)) == \A i, j \in 1..Len(q) : i # j => Key(q[i]) # Key(q[j])

s_a     == <<97>>             \* "a"
s_b     == <<98>>             \* "b"
s_d     == <<100>>            \* "d"
s_z     == <<122>>            \* "z"
s_ac    == <<97, 58>>         \* "a:"
s_hw    == <<104, 124, 119>>  \* "h|w"
s_xy    == <<120, 124, 121>>  \* "x|y"
s_7     == <<55>>             \* "7"
s_sp7   == <<32, 55>>         \* " 7"
s_8     == <<56>>             \* "8"
s_9     == <<57>>             \* "9"
s_0x10  == <<48, 120, 49, 48>>                    \* "0x10"
s_7p5   == <<55, 46, 53>>                         \* "7.5"
s_1p5   == <<49, 46, 53>>                         \* "1.5"
s_red   == <<35, 70, 70, 48, 48, 48, 48>>         \* "#FF0000"
s_Go    == <<71, 111>>        \* "Go"
s_No    == <<78, 111>>        \* "No"
s_G0o   == <<71, 0, 111>>     \* "G\0o", a label with a NUL in it
s_G     == <<71>>             \* "G"
s_X     == <<88>>             \* "X"
s_OKlow == <<79, 107>>        \* "Ok"
s_EDIT  == <<69, 68, 73, 84>> \* "EDIT"
s_IntEdit == <<73, 110, 116, 69, 100, 105, 116>>  \* "IntEdit"
s_bogus == <<98, 111, 103, 117, 115>>             \* "bogus"

Class(c, name) == ("class" :> LStr(c)) @@ ("name" :> LStr(name))

Args(ctl, labels, idmap, include_buttons) ==
    [controls |-> ctl, labels |-> labels, idmap |-> idmap, include_buttons |-> include_buttons]

IdEntry(key, val) == [key |-> key, val |-> val]
EntryKey(e) == e.key

\* What an undefined iteration may do: end the process, find nothing, find
\* a string
Undefined ==
    { [crash |-> TRUE, found |-> <<>>], [crash |-> FALSE, found |-> <<>>],
      [crash |-> FALSE, found |-> <<LStr(s_b)>>] }

\* the ways the undefined iterations of a call on the arguments a may go:
\* one outcome for each entry that makes one
UndefinedOf(a) ==
    [ { i \in 1..Len(a.controls.entries) : IsStray(a.controls.entries[i]) } -> Undefined ]

e_label    == Tbl(Class(class_label, s_a) @@ ("label" :> LStr(s_hw)), NoItems)
e_edit     == Tbl(Class(class_edit, s_a) @@ ("value" :> LStr(s_hw)), NoItems)
e_checkbox == Tbl(Class(class_checkbox, s_b), NoItems)
e_intedit  == Tbl(Class(class_intedit, s_b) @@ ("value" :> LNum(5)) @@ ("min" :> LNum(0))
                    @@ ("max" :> LNum(10)), NoItems)
e_dropdown == Tbl(Class(class_dropdown, s_d) @@ ("value" :> LStr(s_z)),
                  Items(<<LStr(s_a), LStr(s_b)>>))

\* The control entries of the dialogs that are operated on
LifeEntries ==
    { e_label, e_edit, e_intedit, e_checkbox, e_dropdown,
      Tbl(Class(class_edit, s_ac) @@ ("text" :> LStr(<<Hash>>)), NoItems),
      Tbl(Class(class_dropdown, s_d) @@ ("value" :> LStr(s_z)), NoItems),
      Tbl(Class(class_floatedit, s_b) @@ ("value" :> LStr(s_1p5)), NoItems),
      Tbl(Class(class_color, s_d) @@ ("value" :> LStr(s_red)), NoItems) }

\* a dialog of three controls, two of them of one name
ThreeControls == { <<e_edit, e_edit, e_checkbox>> }

\* Dialogs with up to MaxControls controls, or those three, and no button
\* arguments
ValueArgs ==
    { Args(TableArg(c), NoTableArg, NoTableArg, FALSE) :
        c \in SeqsUpTo(LifeEntries, MaxControls) \cup ThreeControls }

LifeLabels ==
    {NoTableArg}
    \cup { TableArg(q) : q \in SeqsUpTo({LStr(s_Go), LStr(s_No), LStr(s_G0o)}, MaxButtons) }
LifeIdMaps ==
    {NoTableArg} \cup
    { TableArg(q) : q \in { m \in SeqsUpTo({ IdEntry(LStr(k), LStr(v)) :
                                               k \in {str_cancel, str_ok, str_Cancel},
                                               v \in {s_Go, s_No} }, MaxIdMap) :
                            Distinct(m, EntryKey) } }

\* Control entries of every class, well and badly formed
CoreEntries ==
    { NotATable,
      Tbl(("name" :> LStr(s_a)), NoItems),
      Tbl(Class(s_bogus, s_a), NoItems),
      Tbl(("class" :> LNum(5)), NoItems),
      Tbl(("class" :> LBool(TRUE)), NoItems),
      Tbl(Class(class_label, s_a), NoItems),
      Tbl(Class(class_edit, s_a) @@ ("value" :> LStr(s_z)), NoItems),
      Tbl(Class(s_EDIT, s_a) @@ ("value" :> LStr(s_z)), NoItems),
      Tbl(Class(class_intedit, s_b) @@ ("min" :> LNum(10)) @@ ("max" :> LNum(5)), NoItems),
      Tbl(Class(s_IntEdit, s_b) @@ ("min" :> LNum(0)) @@ ("max" :> LNum(5)), NoItems),
      Tbl(Class(class_floatedit, s_b) @@ ("value" :> LStr(s_7p5)) @@ ("min" :> LNum(5))
            @@ ("max" :> LNum(5)), NoItems),
      Tbl(Class(class_textbox, s_a) @@ ("text" :> LNum(5)), NoItems),
      Tbl(Class(class_dropdown, s_d) @@ ("value" :> LStr(s_z)), Items(<<LStr(s_a), LStr(s_b)>>)),
      Tbl(Class(class_dropdown, s_d) @@ ("value" :> LStr(s_z)), NoItems),
      Tbl(Class(class_checkbox, s_b) @@ ("value" :> LStr(s_a)), NoItems),
      Tbl(Class(class_color, s_a) @@ ("value" :> LStr(s_red)), NoItems),
      Tbl(Class(class_coloralpha, s_a), NoItems),
      Tbl(Class(class_alpha, s_a) @@ ("value" :> LBool(TRUE)), NoItems) }

\* 7.25, 7.5 and 3000000000, which is more than INT_MAX
Dbl_7p25 == Dbl("fin", FALSE, <<7>>, <<2, 5>>)
Dbl_7p5  == Dbl("fin", FALSE, <<7>>, <<5>>)
Dbl_3e9  == Dbl("fin", FALSE, <<3, 0, 0, 0, 0, 0, 0, 0, 0, 0>>, <<>>)

\* Values of an IntEdit's min and max: absent, mistyped, numeric strings,
\* numbers of int, numbers with a fraction and a number beyond int
RangeInts == {-3, 0, 5, 7, 10, INT_MIN, INT_MAX}
RangeValues ==
    { LNil, LBool(TRUE), LTable, LStr(s_z), LStr(s_7), LStr(s_sp7), LStr(s_0x10),
      LStr(s_7p5), LNumber(Dbl_7p25), LNumber(Dbl_7p5), LNumber(Dbl_3e9) }
    \cup { LNum(n) : n \in RangeInts }

IntEditEntries ==
    { Tbl(Class(class_intedit, s_b) @@ ("min" :> lo) @@ ("max" :> hi), NoItems) :
        lo \in RangeValues, hi \in RangeValues }

DropdownEntries ==
    { Tbl(Class(class_dropdown, s_d) @@ ("value" :> v), it) :
        v \in {LNil, LStr(s_a), LStr(s_b), LStr(s_z), LNum(7), LBool(TRUE)},
        it \in { NoItems, Items(<<>>), Items(<<LStr(s_a), LStr(s_b)>>),
                 Items(<<LBool(TRUE), LNum(7), LStr(s_b)>>), Items(<<LTable>>) } }

CtorControls ==
    {NoTableArg}
    \cup { TableArg(c) : c \in SeqsUpTo(CoreEntries, MaxCtorControls) }
    \cup { TableArg(<<e>>) : e \in IntEditEntries \cup DropdownEntries }

\* Button arguments: labels, and id entries of a semantic name ("Ok" is
\* none), of the number 7 or of the string "7" as key, and of a label ("X"
\* is no button's)
CtorLabels ==
    {NoTableArg} \cup { TableArg(q) : q \in SeqsUpTo({LStr(s_Go), LStr(s_No)}, MaxButtons) }
CtorIdEntries ==
    { IdEntry(k, LStr(v)) : k \in {LStr(str_cancel), LStr(str_ok), LStr(s_OKlow), LNum(7), LStr(s_7)},
                            v \in {s_Go, s_No, s_X} }
CtorIdMaps ==
    {NoTableArg} \cup
    { TableArg(q) : q \in { m \in SeqsUpTo(CtorIdEntries, MaxIdMap) : Distinct(m, EntryKey) } }

\* Button arguments with entries that are neither strings nor numbers, and
\* with numbers for labels
MistypedLabels ==
    { TableArg(q) : q \in { <<LNum(7)>>, <<LBool(TRUE)>>, <<LStr(s_Go), LTable>>,
                            <<LNum(7), LStr(s_Go)>> } }
MistypedIdMaps ==
    { TableArg(<<e>>) : e \in { IdEntry(LBool(TRUE), LStr(s_Go)), IdEntry(LStr(str_ok), LBool(FALSE)),
                                IdEntry(LStr(str_ok), LNum(7)), IdEntry(LStr(str_cancel), LTable),
                                IdEntry(LNum(7), LNum(7)) } }

\* Button id tables with number keys beside the strings of those numbers,
\* in an order in which lua_next goes back to an earlier entry: one whose
\* loop then comes to the entry of the label "X", one whose loop comes to
\* an entry a second time, one whose loop ends
TwinEntry(k, v) == IdEntry(k, LStr(v))
TwinIdMaps ==
    { TableArg(q) : q \in
        { <<TwinEntry(LNum(8), s_Go), TwinEntry(LStr(s_7), s_Go), TwinEntry(LStr(s_8), s_X),
            TwinEntry(LNum(7), s_Go)>>,
          <<TwinEntry(LNum(8), s_Go), TwinEntry(LStr(s_7), s_Go), TwinEntry(LStr(s_8), s_Go),
            TwinEntry(LNum(7), s_Go)>>,
          <<TwinEntry(LNum(8), s_Go), TwinEntry(LStr(s_7), s_Go), TwinEntry(LNum(9), s_Go),
            TwinEntry(LStr(s_8), s_Go), TwinEntry(LNum(7), s_Go), TwinEntry(LStr(s_9), s_Go)>> } }

ShortControls == { TableArg(<<>>), TableArg(<<Tbl(Class(class_edit, s_a), NoItems)>>) }

RECURSIVE Join(_)
\* tokens joined by '|'
Join(toks) ==
    IF toks = <<>> THEN <<>>
    ELSE IF Len(toks) = 1 THEN toks[1]
    ELSE toks[1] \o <<Pipe>> \o Join(Tail(toks))

\* The tokens of the strings handed to Unserialise
tok_a  == <<97, 58, 120, 35, 55, 67, 121>>              \* "a:x#7Cy"
tok_ac == <<97, 35, 51, 65, 58, 113, 58, 35, 50, 51>>   \* "a#3A:q:#23"
tok_b  == <<98, 58, 45, 52, 50, 57, 52, 57, 54, 55, 51, 48, 51, 120>>
                                                        \* "b:-4294967303x"
tok_b0 == <<98, 58, 48>>                                \* "b:0"
tok_d  == <<100, 58, 122>>                              \* "d:z"
tok_u  == <<117, 58, 49>>                               \* "u:1"
tok_n  == <<97>>                                        \* "a"

Tokens == {tok_a, tok_ac, tok_b, tok_b0, tok_d, tok_u, tok_n}

\* the tokens that come in pairs: the token of the name "a:" and the token
\* of the name no control has come alone
PairTokens == Tokens \ {tok_ac, tok_u}

TokenSeqs ==
    { q \in SeqsUpTo(Tokens, MaxTokens) : \A k \in 1..Len(q) : Len(q) = 1 \/ q[k] \in PairTokens }

UnserialiseInputs == { Join(q) : q \in TokenSeqs }

PushInputs == (0 - MaxPush)..MaxPush

----------------------------------------------------------------------------
(* The state machine *)

NoRet(op) == [op |-> op, arg |-> 0, str |-> <<>>, nret |-> 0, act |-> LNil, values |-> {}]

Self == [controls |-> controls, buttons |-> buttons,
         button_pushed |-> button_pushed, use_buttons |-> use_buttons]

Init ==
    /\ pc = "new"
    /\ args = Args(NoTableArg, NoTableArg, NoTableArg, FALSE)
    /\ controls = <<>>
    /\ buttons = <<>>
    /\ button_pushed = NoButton
    /\ use_buttons = FALSE
    /\ ret = NoRet("none")

\* new LuaDialog(L, include_buttons) with the arguments a, r how the
\* constructor ends on them
ConstructAs(a, r) ==
    /\ pc = "new"
    /\ pc' = r.st
    /\ args' = a
    /\ controls' = r.controls
    /\ buttons' = r.buttons
    /\ button_pushed' = NoButton
    /\ use_buttons' = a.include_buttons
    /\ ret' = NoRet("new")

ConstructWith(a) == \E u \in UndefinedOf(a) : ConstructAs(a, LuaDialogNew(a, u))

Construct == \E a \in ValueArgs : ConstructWith(a)

ConstructButtons ==
    \E l \in LifeLabels, m \in LifeIdMaps, ib \in BOOLEAN :
        ConstructWith(Args(TableArg(<<Tbl(Class(class_edit, s_a), NoItems)>>), l, m, ib))

\* every control table, without button arguments
ConstructControls ==
    \E c \in CtorControls, ib \in BOOLEAN : ConstructWith(Args(c, NoTableArg, NoTableArg, ib))

\* every combination of button arguments, with a short control table
ConstructWithButtons ==
    \E c \in ShortControls, l \in CtorLabels \cup MistypedLabels,
       m \in CtorIdMaps \cup MistypedIdMaps \cup TwinIdMaps, ib \in BOOLEAN :
        ConstructWith(Args(c, l, m, ib))

PushButtonWith(button) ==
    /\ pc = "ok"
    /\ button_pushed' = PushButtonValue(button, buttons)
    /\ ret' = [NoRet("PushButton") EXCEPT !.arg = button]
    /\ UNCHANGED <<pc, args, controls, buttons, use_buttons>>

PushButton == \E button \in PushInputs : PushButtonWith(button)

Serialise ==
    /\ pc = "ok"
    /\ ret' = [NoRet("Serialise") EXCEPT !.str = SerialiseString(controls)]
    /\ UNCHANGED <<pc, args, controls, buttons, button_pushed, use_buttons>>

UnserialiseWith(serialised) ==
    /\ pc = "ok"
    /\ controls' = UnserialiseControls(controls, serialised)
    /\ ret' = NoRet("Unserialise")
    /\ UNCHANGED <<pc, args, buttons, button_pushed, use_buttons>>

Unserialise == \E serialised \in UnserialiseInputs : UnserialiseWith(serialised)

ReadBack ==
    /\ pc = "ok"
    /\ ret' = [op |-> "ReadBack", arg |-> 0, str |-> <<>>] @@ LuaReadBack(Self)
    /\ UNCHANGED <<pc, args, controls, buttons, button_pushed, use_buttons>>

\* The archive cycle: Serialise this dialog (s), build a fresh dialog from
\* the same arguments (fresh, a call that ended well), Unserialise the
\* string into it and read it back
RoundTripOf(s, fresh) ==
    /\ pc = "ok"
    /\ fresh.st = "ok"
    /\ ret' = [op |-> "RoundTrip", arg |-> 0, str |-> s]
              @@ LuaReadBack([Self EXCEPT
                                !.controls = UnserialiseControls(fresh.controls, s),
                                !.buttons = fresh.buttons,
                                !.button_pushed = NoButton])
    /\ UNCHANGED <<pc, args, controls, buttons, button_pushed, use_buttons>>

RoundTrip ==
    \E u \in UndefinedOf(args) : RoundTripOf(SerialiseString(controls), LuaDialogNew(args, u))

\* A dialog and its values: construction, Unserialise, Serialise, ReadBack
Next == Construct \/ Serialise \/ Unserialise \/ ReadBack \/ RoundTrip

Spec == Init /\ [][Next]_vars

\* A dialog and its buttons: construction, PushButton, ReadBack
NextButtons == ConstructButtons \/ PushButton \/ ReadBack

SpecButtons == Init /\ [][NextButtons]_vars

\* The constructor alone, on every kind of argument
NextCtor == ConstructControls \/ ConstructWithButtons

SpecCtor == Init /\ [][NextCtor]_vars

----------------------------------------------------------------------------
(* Properties *)

Range(q) == { q[i] : i \in 1..Len(q) }
Count(q, c) == Cardinality({ i \in 1..Len(q) : q[i] = c })

SharedName(i, j) ==
    /\ i # j
    /\ controls[i].name = controls[j].name
    /\ CanSerialiseValue(controls[i])
    /\ CanSerialiseValue(controls[j])

\* the classes the round trip is claimed for
C1_Classes == {"Label", "Edit", "IntEdit", "Checkbox", "Dropdown"}

(* C1: for a dialog of Label, Edit, IntEdit, Checkbox and Dropdown         *)
(* controls, Serialise, then Unserialise of the string into a fresh dialog *)
(* built from the same descriptors, gives a dialog whose ReadBack maps the *)
(* same names to the same values as the ReadBack of the original dialog.   *)
C1_RoundTrip ==
    (/\ ret.op = "RoundTrip"
     /\ \A i \in 1..Len(controls) : controls[i].class \in C1_Classes)
    => ret.values = LuaReadBack(Self).values

\* a round trip of a dialog whose two Edit controls share a name and hold
\* the text "x|y", which is not the text "h|w" they were constructed with
C1_Witness ==
    /\ ret.op = "RoundTrip"
    /\ ret.values # {}
    /\ \E i, j \in 1..Len(controls) :
        /\ SharedName(i, j)
        /\ controls[i].class = "Edit"
        /\ controls[i].text = s_xy
        /\ controls[j].text = s_xy
        /\ args.controls.entries[i] = e_edit

\* the entries Serialise is to emit
C8_Entries ==
    LET ser == SelectSeq(controls, CanSerialiseValue)
    IN [i \in 1..Len(ser) |->
            inline_string_encode(ser[i].name) \o <<Colon>> \o SerialiseValue(ser[i])]

(* C8: Serialise returns the entries Encode(name) ":" SerializeValue of    *)
(* the serialisable controls, in order, joined by single '|' with none     *)
(* leading or trailing; Labels contribute nothing; no serialisable control *)
(* gives the empty string; and Serialise changes nothing of the dialog.    *)
C8_SerialiseFormat ==
    /\ [](ret.op = "Serialise" =>
            /\ ret.str = Join(C8_Entries)
            /\ (C8_Entries = <<>> => ret.str = <<>>)
            /\ (C8_Entries # <<>> =>
                    /\ Count(ret.str, Pipe) = Len(C8_Entries) - 1
                    /\ Head(ret.str) # Pipe
                    /\ ret.str[Len(ret.str)] # Pipe))
    /\ [][ret'.op = "Serialise" => UNCHANGED <<pc, controls, buttons, button_pushed, use_buttons>>]_vars

\* a Serialise of a dialog with a Label and a serialisable control
C8_Witness ==
    /\ ret.op = "Serialise"
    /\ ret.str # <<>>
    /\ \E i, j \in 1..Len(controls) : controls[i].class = "Label" /\ CanSerialiseValue(controls[j])

\* What the tokens are to do, written out token by token.  The name a token
\* hands its value to; "a" holds no ':' and names nothing
C7_Named == Tokens \ {tok_n}

C7_Name(tok) ==
    CASE tok = tok_a  -> s_a
      [] tok = tok_ac -> s_ac
      [] tok = tok_b  -> s_b
      [] tok = tok_b0 -> s_b
      [] tok = tok_d  -> s_d
      [] tok = tok_u  -> <<117>>

C7_Value(text, value, fvalue, checked) ==
    [text |-> text, value |-> value, fvalue |-> fvalue, checked |-> checked]

\* the value of a token as each class takes it: the text of an Edit and the
\* selection of a Dropdown, the int of an IntEdit, the double of a
\* FloatEdit, the state of a Checkbox (none of the values is a colour)
C7_Given(tok) ==
    CASE tok = tok_a  -> C7_Value(s_xy, 0, DblZero(FALSE), TRUE)                \* x#7Cy
      [] tok = tok_ac -> C7_Value(<<113, 58, 35>>, 0, DblZero(FALSE), TRUE)     \* q:#23
      [] tok = tok_b  -> C7_Value(<<45, 52, 50, 57, 52, 57, 54, 55, 51, 48, 51, 120>>, -7,
                                  Dbl("fin", TRUE, <<4, 2, 9, 4, 9, 6, 7, 3, 0, 3>>, <<>>), TRUE)
      [] tok = tok_b0 -> C7_Value(<<48>>, 0, DblZero(FALSE), FALSE)
      [] tok = tok_d  -> C7_Value(s_z, 0, DblZero(FALSE), TRUE)
      [] tok = tok_u  -> C7_Value(<<49>>, 1, Dbl("fin", FALSE, <<1>>, <<>>), TRUE)

\* the control c after it was handed the value g
C7_Received(c, g) ==
    CASE c.class \in {"Edit", "Textbox"} -> [c EXCEPT !.text = g.text]
      [] c.class = "IntEdit"   -> [c EXCEPT !.value = g.value]
      [] c.class = "FloatEdit" -> [c EXCEPT !.fvalue = g.fvalue]
      [] c.class = "Dropdown"  -> [c EXCEPT !.selected = g.text]
      [] c.class = "Checkbox"  -> [c EXCEPT !.checked = g.checked]
      [] c.class = "Color"     -> [c EXCEPT !.color = DefaultColor]

\* what Unserialise of the tokens q joined by '|' is to leave behind
C7_Post(q) ==
    LET named(c) == { k \in 1..Len(q) : q[k] \in C7_Named /\ C7_Name(q[k]) = c.name }
    IN /\ pc' = "ok"
       /\ buttons' = buttons
       /\ button_pushed' = button_pushed
       /\ Len(controls') = Len(controls)
       /\ \A i \in 1..Len(controls) :
            LET c == controls[i] IN
            IF c.class = "Label" \/ named(c) = {}
            THEN controls'[i] = c
            ELSE controls'[i] = C7_Received(c, C7_Given(q[Max(named(c))]))

(* C7: Unserialise raises nothing; a token without ':' changes nothing; a  *)
(* token name:value gives value to every serialisable control of that      *)
(* name; controls no token names, Labels, the buttons and button_pushed    *)
(* are unchanged.                                                          *)
C7_UnserialiseFrame ==
    [][ret'.op = "Unserialise" =>
            \A q \in TokenSeqs : UnserialiseWith(Join(q)) => C7_Post(q)]_vars

\* after Unserialise, two Edit controls of one name both hold the text
\* "x|y" they were not constructed with, beside a Checkbox of another name
\* that kept the value it was constructed with
C7_Witness ==
    /\ ret.op = "Unserialise"
    /\ args.controls.entries = <<e_edit, e_edit, e_checkbox>>
    /\ SharedName(1, 2)
    /\ controls[1].text = s_xy
    /\ controls[2].text = s_xy
    /\ controls[3].class = "Checkbox"
    /\ controls[3].name = s_b
    /\ ~controls[3].checked

(* C10: a Dropdown with a non-empty items list always holds a value that   *)
(* is one of its items, after construction and after any Unserialise.      *)
C10_DropdownMember ==
    pc = "ok" =>
        \A i \in 1..Len(controls) :
            (controls[i].class = "Dropdown" /\ controls[i].items # <<>>)
                => controls[i].selected \in Range(controls[i].items)

(* C2 as claimed: with use_buttons, ReadBack yields false exactly when no  *)
(* button is pushed or the pushed button's id is CANCEL, and the pushed    *)
(* button's label otherwise (also for a button of id -1); without          *)
(* use_buttons it yields the value mapping alone.                          *)
C2_Activation ==
    ret.op = "ReadBack" =>
        IF use_buttons
        THEN /\ ret.nret = 2
             /\ (ret.act = LBool(FALSE)) <=>
                    (button_pushed = -1 \/ buttons[button_pushed + 1].first = BTN_CANCEL)
             /\ ret.act # LBool(FALSE) => ret.act = LStr(buttons[button_pushed + 1].second)
        ELSE ret.nret = 1 /\ ret.act = LNil

\* the bytes of a label before its first NUL, the whole label when it has
\* none
C2_UpToNul(label) ==
    IF 0 \in Range(label)
    THEN SubSeq(label, 1, Min({ k \in 1..Len(label) : label[k] = 0 }) - 1)
    ELSE label

(* C2 as amended: with use_buttons, ReadBack yields false exactly when no  *)
(* button is pushed or the pushed button's id is CANCEL, and otherwise the *)
(* pushed button's label up to its first NUL byte, the whole label when it *)
(* has none (also for a button of id -1); without use_buttons it yields    *)
(* the value mapping alone.                                                *)
C2_ActivationCString ==
    ret.op = "ReadBack" =>
        IF use_buttons
        THEN /\ ret.nret = 2
             /\ (ret.act = LBool(FALSE)) <=>
                    (button_pushed = -1 \/ buttons[button_pushed + 1].first = BTN_CANCEL)
             /\ ret.act # LBool(FALSE) =>
                    ret.act = LStr(C2_UpToNul(buttons[button_pushed + 1].second))
        ELSE ret.nret = 1 /\ ret.act = LNil

\* a ReadBack after pushing a button without a semantic id whose label
\* "G\0o" is read back as "G"
C2_Witness ==
    /\ ret.op = "ReadBack"
    /\ use_buttons
    /\ button_pushed >= 0
    /\ buttons[button_pushed + 1] = Button(-1, s_G0o)
    /\ ret.act = LStr(s_G)

(* C3: button_pushed is -1 or an index of the button list; PushButton      *)
(* stores an index of the list as given and any other integer as -1.       *)
C3_PushValid ==
    pc = "ok" =>
        /\ button_pushed = -1 \/ button_pushed \in 0..(Len(buttons) - 1)
        /\ ret.op = "PushButton" =>
                button_pushed =
                    IF ret.arg \in 0..(Len(buttons) - 1) THEN ret.arg ELSE -1

\* PushButton called with the number of buttons, one past the last index
C3_Witness ==
    /\ ret.op = "PushButton"
    /\ ret.arg = Len(buttons)
    /\ button_pushed = -1

----------------------------------------------------------------------------
(* Properties of the constructor *)

Entries == args.controls.entries

\* The values of min and max written out.  A descriptor value as the number
\* the script wrote: the number itself, the number a numeric string stands
\* for, def when it holds none
C9_Written(v, def) ==
    CASE v \in {LStr(s_7), LStr(s_sp7)} -> DblOfInt(7)
      [] v = LStr(s_0x10)               -> DblOfInt(16)
      [] v = LStr(s_7p5)                -> Dbl_7p5
      [] v.t = "number"                 -> v.n
      [] OTHER                          -> DblOfInt(def)

\* A descriptor value as get_field<int> loads it: a number without its
\* fraction and reduced to its low 32 bits (3000000000 - 2^32 is
\* -1294967296), def when it holds none
C9_Loaded(v, def) ==
    CASE v \in {LStr(s_7), LStr(s_sp7), LStr(s_7p5), LNumber(Dbl_7p25), LNumber(Dbl_7p5)} -> 7
      [] v = LStr(s_0x10)    -> 16
      [] v = LNumber(Dbl_3e9) -> -1294967296
      [] \E n \in RangeInts : v = LNum(n) -> CHOOSE n \in RangeInts : v = LNum(n)
      [] OTHER               -> def

IsIntEditEntry(e) == e.istable /\ ToLower(lua_tostring(e.fields["class"])) = class_intedit

\* every entry of the control table is an IntEdit, and no button arguments
OnlyIntEdits ==
    /\ pc # "new"
    /\ args.controls.istable /\ ~args.labels.istable /\ ~args.idmap.istable
    /\ \A k \in 1..Len(Entries) : IsIntEditEntry(Entries[k])

(* C9 as claimed: an IntEdit built from descriptor values min >= max       *)
(* (absent and mistyped values standing for INT_MIN and INT_MAX) has the   *)
(* range [INT_MIN, INT_MAX], and construction does not raise; one built    *)
(* from min < max keeps [min, max]; so every IntEdit has min < max.        *)
C9_RangeSnapDescriptor ==
    /\ OnlyIntEdits => pc = "ok"
    /\ pc = "ok" =>
        /\ Len(controls) = Len(Entries)
        /\ \A i \in 1..Len(controls) :
            LET lo == C9_Written(Entries[i].fields["min"], INT_MIN)
                hi == C9_Written(Entries[i].fields["max"], INT_MAX)
            IN IsIntEditEntry(Entries[i]) =>
               /\ controls[i].class = "IntEdit"
               /\ DblGeq(lo, hi) => (controls[i].min = INT_MIN /\ controls[i].max = INT_MAX)
               /\ DblLess(lo, hi) => (/\ DblOfInt(controls[i].min) = lo
                                       /\ DblOfInt(controls[i].max) = hi)
               /\ controls[i].min < controls[i].max

(* C9 as amended: with min and max the ints loaded from the descriptor (a  *)
(* number loses its fraction and all but its low 32 bits; absent and       *)
(* mistyped values stand for INT_MIN and INT_MAX), an IntEdit built from   *)
(* min >= max has the range [INT_MIN, INT_MAX], and construction does not  *)
(* raise; one built from min < max keeps [min, max]; so every IntEdit has  *)
(* min < max.                                                              *)
C9_RangeSnap ==
    /\ OnlyIntEdits => pc = "ok"
    /\ pc = "ok" =>
        /\ Len(controls) = Len(Entries)
        /\ \A i \in 1..Len(controls) :
            LET lo == C9_Loaded(Entries[i].fields["min"], INT_MIN)
                hi == C9_Loaded(Entries[i].fields["max"], INT_MAX)
            IN IsIntEditEntry(Entries[i]) =>
               /\ controls[i].class = "IntEdit"
               /\ lo >= hi => (controls[i].min = INT_MIN /\ controls[i].max = INT_MAX)
               /\ lo < hi => (controls[i].min = lo /\ controls[i].max = hi)
               /\ controls[i].min < controls[i].max

\* an IntEdit built from min = 7.25 and max = 7.5, which load as 7 and 7
C9_Witness ==
    /\ pc = "ok"
    /\ Len(controls) = 1
    /\ IsIntEditEntry(Entries[1])
    /\ Entries[1].fields["min"] = LNumber(Dbl_7p25)
    /\ Entries[1].fields["max"] = LNumber(Dbl_7p5)
    /\ controls[1].min = INT_MIN
    /\ controls[1].max = INT_MAX

\* the button arguments as the constructor reads them
Labels == IF args.labels.istable THEN args.labels.entries ELSE <<>>
IdMap  == IF args.idmap.istable THEN args.idmap.entries ELSE <<>>
LabelText(i) == lua_tostring(Labels[i])

\* the control table is one whose controls all build
ControlsBuild == args.controls \in ShortControls

(* C4 as claimed: without a label list (or with an empty one, or without   *)
(* include_buttons) the buttons are (OK,"OK"), (CANCEL,"Cancel"), whether  *)
(* the id map is absent, empty or non-empty (its entries strings).         *)
C4_DefaultsAnyIdMap ==
    (/\ pc # "new"
     /\ ControlsBuild
     /\ ~args.include_buttons \/ Labels = <<>>
     /\ \A k \in 1..Len(IdMap) : IdMap[k].key.t = "string" /\ IdMap[k].val.t = "string")
    => pc = "ok" /\ buttons = DefaultButtons

(* C4 as amended: without a label list, or with an empty one, and with     *)
(* include_buttons, the buttons are (OK,"OK"), (CANCEL,"Cancel") when the  *)
(* id map is absent or empty, and construction raises when the id map has  *)
(* an entry, of whatever types its key and label are; without              *)
(* include_buttons the buttons are those two whatever the button arguments *)
(* are.                                                                    *)
C4_Defaults ==
    (/\ pc # "new"
     /\ ControlsBuild
     /\ ~args.include_buttons \/ Labels = <<>>)
    => IF args.include_buttons /\ IdMap # <<>>
       THEN pc = "error" /\ buttons = <<>>
       ELSE pc = "ok" /\ buttons = DefaultButtons

\* buttons requested, no label list, an empty id map: the two defaults
C4_Witness ==
    /\ pc = "ok"
    /\ args.include_buttons
    /\ ~args.labels.istable
    /\ args.idmap.istable
    /\ buttons = <<Button(BTN_OK, str_OK), Button(BTN_CANCEL, str_Cancel)>>

\* the semantic names in the order of enum ButtonIds
SemanticNames ==
    <<str_ok, str_yes, str_save, str_apply, str_close, str_no, str_cancel, str_help,
      str_context_help>>

SemanticId(name) ==
    IF name \in Range(SemanticNames)
    THEN Min({ k \in 1..Len(SemanticNames) : SemanticNames[k] = name }) - 1
    ELSE -1

\* the first button that carries the label of id map entry k (0: none)
C5_Target(k) ==
    LET hit == { i \in 1..Len(Labels) : LabelText(i) = lua_tostring(IdMap[k].val) }
    IN IF hit = {} THEN 0 ELSE Min(hit)

\* the name of id map entry k: its key, a number key by its digits
C5_NameOf(k) ==
    CASE IdMap[k].key = LNum(7) -> s_7
      [] IdMap[k].key = LNum(8) -> s_8
      [] IdMap[k].key = LNum(9) -> s_9
      [] OTHER                  -> IdMap[k].key.s

(* C5: with include_buttons the buttons are the labels in order, each of   *)
(* id -1, but that for every (semantic name, label) of the id map the      *)
(* first button of that label takes the id of the name (-1 for a name      *)
(* that is none of the nine, compared case-sensitively) and no other       *)
(* button changes; an entry whose label no button has makes construction   *)
(* raise, and no dialog results.  (Entries applied in the order of the     *)
(* table's traversal; labels that are strings, keys that are strings or    *)
(* numbers.)                                                               *)
C5_ButtonIds ==
    (/\ pc # "new"
     /\ ControlsBuild
     /\ args.include_buttons
     /\ \A i \in 1..Len(Labels) : Labels[i].t = "string"
     /\ \A k \in 1..Len(IdMap) : IdMap[k].key.t \in {"string", "number"} /\ IdMap[k].val.t = "string")
    => IF \E k \in 1..Len(IdMap) : C5_Target(k) = 0
       THEN pc = "error" /\ buttons = <<>> /\ controls = <<>>
       ELSE /\ pc = "ok"
            /\ Labels # <<>> =>
                /\ Len(buttons) = Len(Labels)
                /\ \A i \in 1..Len(Labels) :
                    LET K == { k \in 1..Len(IdMap) : C5_Target(k) = i }
                    IN /\ buttons[i].second = LabelText(i)
                       /\ buttons[i].first =
                            IF K = {} THEN -1 ELSE SemanticId(C5_NameOf(Max(K)))

\* the id map { [7] = "Go" } with the button "Go": the button exists, and
\* construction raised
C5_Witness ==
    /\ pc = "error"
    /\ args.include_buttons
    /\ ControlsBuild
    /\ Labels = <<LStr(s_Go)>>
    /\ IdMap = <<IdEntry(LNum(7), LStr(s_Go))>>

\* the four fatal cases
C6_Fatal ==
    \/ ~args.controls.istable
    \/ \E i \in 1..Len(Entries) : ~Entries[i].istable
    \/ \E i \in 1..Len(Entries) :
        \/ ~lua_isstring(Entries[i].fields["class"])
        \/ ToLower(lua_tostring(Entries[i].fields["class"])) \notin KnownClasses
    \/ /\ args.include_buttons
       /\ \E k \in 1..Len(IdMap) :
            /\ lua_isstring(IdMap[k].val)
            /\ \A i \in 1..Len(Labels) :
                lua_isstring(Labels[i]) => LabelText(i) # lua_tostring(IdMap[k].val)

(* C6: construction raises if and only if the control input is no table,   *)
(* or a control entry is no table, or an entry's class (compared without   *)
(* case) is missing or none of the ten, or buttons are requested and an id *)
(* map entry names a label that is none of the supplied labels; every      *)
(* other malformed input, also among the button arguments, is tolerated.   *)
C6_RaisesIffFatal ==
    pc # "new" => (pc = "error" <=> C6_Fatal)

====
